---- MODULE Spec2Model ----
(***************************************************************************)
(* Model of github.com/henvic/clino: Program.Run resolves an argument      *)
(* vector against a tree of commands, composes the flag registry along the *)
(* resolved trail, and either invokes the terminal command's action or     *)
(* renders help (clino.go, help.go, exit.go).                              *)
(***************************************************************************)
EXTENDS Integers, Sequences, FiniteSets, TLC

\* Longest argument vector handed to Program.Run.
MaxArgs == 3

\* Longest argument vector of each of two calls of Run that overlap.
MaxOverlapArgs == 2

\* Most errors wrapped around the innermost error handed to ExitCode.
MaxWrap == 2

-----------------------------------------------------------------------------
(* Strings.  An argument is the text d*"-" followed by s: Tok(0,"help") is  *)
(* help, Tok(1,"h") is -h, Tok(2,"help") is --help and Tok(2,"") is --.     *)
Tok(d, s) == [d |-> d, s |-> s]

\* strings.HasPrefix(arg, "-")
HasPrefixDash(arg) == arg.d >= 1

\* The arguments of the model: words, -flags, --help and the terminator --.
NonFlagWords == {"help", "simple", "inner", "not-runnable", "unimplemented", "notfound"}
FlagWords == {"h", "help", "name", "verbose"}
Tokens ==
    {Tok(0, s) : s \in NonFlagWords} \cup {Tok(1, s) : s \in FlagWords}
        \cup {Tok(2, "help"), Tok(2, "")}

RECURSIVE SeqsUpTo(_, _)
SeqsUpTo(S, n) ==
    IF n = 0 THEN {<<>>}
    ELSE LET shorter == SeqsUpTo(S, n - 1)
         IN  shorter \cup {Append(q, x) : q \in {r \in shorter : Len(r) = n - 1}, x \in S}

ArgVectors == SeqsUpTo(Tokens, MaxArgs)

Min(S) == CHOOSE x \in S : \A y \in S : x <= y

-----------------------------------------------------------------------------
(* Flag declarations a contributor makes on the *flag.FlagSet:              *)
(* flags.StringVar(&v, name, def, usage) and its siblings.                  *)
(* typ is the type name flag.UnquoteUsage reports ("" for a boolean flag),   *)
(* def the default (DefValue), zero the String() of the type's zero value.  *)
Flag(name, typ, def, zero, usage) ==
    [name |-> name, typ |-> typ, def |-> def, zero |-> zero, usage |-> usage]

\* A flag whose Value has IsBoolFlag() true takes no argument.
IsBoolFlag(f) == f.typ = ""

NoFlags == {}

-----------------------------------------------------------------------------
(* Commands.  A command is a value implementing Command (Name) and any of   *)
(* the optional interfaces Shorter, Runnable, FlagSet, PersistentFlagSet,   *)
(* Longer, Footer, Parent; impl is the set of interfaces its type fulfils.  *)
Cmd(name, impl, commands, flags, pflags) ==
    [name |-> name, impl |-> impl, commands |-> commands, flags |-> flags, pflags |-> pflags]

simpleCommand ==
    Cmd("simple", {"Longer", "FlagSet", "Runnable"}, <<>>,
        {Flag("name", "string", "World", "", "your name")}, NoFlags)

persistentFlagsCommand ==
    Cmd("simple", {"Longer", "FlagSet", "Runnable", "PersistentFlagSet"}, <<>>,
        {Flag("name", "string", "World", "", "your name")},
        {Flag("verbose", "", "false", "false", "verbose mode"),
         Flag("persistentflag", "string", "none", "", "persistent flag")})

notRunnableCommand == Cmd("not-runnable", {"Shorter", "Longer"}, <<>>, NoFlags, NoFlags)

unimplementedCommand == Cmd("unimplemented", {}, <<>>, NoFlags, NoFlags)

rootCommand ==
    Cmd("app", {"Parent", "Longer", "Footer"},
        <<"notRunnableCommand", "unimplementedCommand">>, NoFlags, NoFlags)

innerCommand ==
    Cmd("inner", {"Parent"}, <<"notRunnableCommand", "simpleCommand">>, NoFlags, NoFlags)

rootCommandWithFlagsDecls ==
    {Flag("planet", "string", "Earth", "", "name of the planet"),
     Flag("deadline", "duration", "5s", "0s", "deadline for the operation"),
     Flag("verbose", "", "false", "false", "show more information"),
     Flag("open", "", "true", "false", "open link in the browser"),
     Flag("nodes", "int", "1", "0", "number of nodes"),
     Flag("custom", "value", "", "", "custom flag test"),
     Flag("unused", "", "", "", "unused bool flag")}

rootCommandWithFlags ==
    Cmd("cmd", {"Parent", "Runnable", "FlagSet"},
        <<"notRunnableCommand", "innerCommand">>, rootCommandWithFlagsDecls, NoFlags)

rootCommandWithFlagsAndPersistentFlags ==
    Cmd("cmd", {"Parent", "Runnable", "FlagSet", "PersistentFlagSet"},
        <<"notRunnableCommand", "innerCommand">>, rootCommandWithFlagsDecls,
        {Flag("persistentflag", "string", "none", "", "persistent flag")})

\* A command an application may declare: it is named like the help
\* pseudo-command and binds a flag named h.
helpNamedCommand ==
    Cmd("help", {"Longer", "Runnable", "FlagSet"}, <<>>,
        {Flag("h", "string", "localhost", "", "host name")}, NoFlags)

hostRootCommand ==
    Cmd("app", {"Parent", "Runnable", "FlagSet", "Footer"},
        <<"helpNamedCommand", "simpleCommand">>,
        {Flag("h", "string", "localhost", "", "host name")}, NoFlags)

\* badRootCommand contains two commands with the same name.
badRootCommand == Cmd("bad", {"Parent"}, <<"simpleCommand", "simpleCommand">>, NoFlags, NoFlags)

\* Applications with the same mistake elsewhere: in a subcommand's children,
\* and between two commands of different types that are not neighbours.
deepBadRootCommand ==
    Cmd("app", {"Parent", "Runnable", "FlagSet", "PersistentFlagSet", "Longer"},
        <<"simpleCommand", "badRootCommand">>,
        {Flag("name", "string", "World", "", "your name")},
        {Flag("verbose", "", "false", "false", "verbose mode")})

shadowRootCommand ==
    Cmd("app", {"Parent", "Longer"},
        <<"simpleCommand", "notRunnableCommand", "persistentFlagsCommand">>, NoFlags, NoFlags)

(* An application whose commands contribute flags at every level: the root  *)
(* and inner both declare persistent and local flags, simple declares both  *)
(* too, and unimplemented declares a local flag named like the persistent   *)
(* flag of inner.                                                           *)
flagsLeafCommand ==
    Cmd("simple", {"Longer", "Runnable", "FlagSet", "PersistentFlagSet"}, <<>>,
        {Flag("name", "string", "World", "", "your name")},
        {Flag("h", "", "false", "false", "human-readable output")})

clashLeafCommand ==
    Cmd("unimplemented", {"Runnable", "FlagSet"}, <<>>,
        {Flag("verbose", "string", "yes", "", "how verbose")}, NoFlags)

flagsInnerCommand ==
    Cmd("inner", {"Parent", "Runnable", "FlagSet", "PersistentFlagSet"},
        <<"notRunnableCommand", "flagsLeafCommand", "clashLeafCommand">>,
        {Flag("open", "", "true", "false", "open link in the browser")},
        {Flag("verbose", "", "false", "false", "verbose mode")})

flagsRootCommand ==
    Cmd("cmd", {"Parent", "Runnable", "FlagSet", "PersistentFlagSet"},
        <<"notRunnableCommand", "flagsInnerCommand">>,
        {Flag("planet", "string", "Earth", "", "name of the planet")},
        {Flag("persistentflag", "string", "none", "", "persistent flag")})

CommandIds ==
    {"flagsLeafCommand", "clashLeafCommand", "flagsInnerCommand", "flagsRootCommand",
     "badRootCommand", "deepBadRootCommand", "shadowRootCommand",
     "simpleCommand", "persistentFlagsCommand", "notRunnableCommand", "unimplementedCommand",
     "rootCommand", "innerCommand", "rootCommandWithFlags",
     "rootCommandWithFlagsAndPersistentFlags", "helpNamedCommand", "hostRootCommand"}

Command(c) ==
    CASE c = "simpleCommand" -> simpleCommand
      [] c = "persistentFlagsCommand" -> persistentFlagsCommand
      [] c = "notRunnableCommand" -> notRunnableCommand
      [] c = "unimplementedCommand" -> unimplementedCommand
      [] c = "rootCommand" -> rootCommand
      [] c = "innerCommand" -> innerCommand
      [] c = "rootCommandWithFlags" -> rootCommandWithFlags
      [] c = "rootCommandWithFlagsAndPersistentFlags" -> rootCommandWithFlagsAndPersistentFlags
      [] c = "helpNamedCommand" -> helpNamedCommand
      [] c = "hostRootCommand" -> hostRootCommand
      [] c = "badRootCommand" -> badRootCommand
      [] c = "flagsLeafCommand" -> flagsLeafCommand
      [] c = "clashLeafCommand" -> clashLeafCommand
      [] c = "flagsInnerCommand" -> flagsInnerCommand
      [] c = "flagsRootCommand" -> flagsRootCommand
      [] c = "deepBadRootCommand" -> deepBadRootCommand
      [] c = "shadowRootCommand" -> shadowRootCommand

Name(c) == Command(c).name

\* The strings Short(), Long() and Foot() return.
Short(c) == IF c = "notRunnableCommand" THEN "command containing a help topic" ELSE ""
Long(c) ==
    CASE c = "notRunnableCommand" -> "This is a not so long, multiline help topic."
      [] c = "helpNamedCommand" -> "How to get help."
      [] OTHER -> "Example application."
Foot(c) ==
    IF c = "rootCommand" THEN "Example: add anything here." ELSE "See the manual."
Implements(c, iface) == iface \in Command(c).impl

\* The GlobalFlags function of the tests: flags.StringVar(&globalflag, "globalflag", "none", ...)
GlobalFlagsFunc == [nil |-> FALSE, decls |-> {Flag("globalflag", "string", "none", "", "global flag")}]

(* type Program struct { Root; GlobalFlags; Output; fs }                    *)
NilFunc == [nil |-> TRUE]
NilWriter == "nil"
NilFlagSet == [nil |-> TRUE]
Program(root, globalFlags) ==
    [Root |-> root, GlobalFlags |-> globalFlags, Output |-> "buf", fs |-> NilFlagSet]

\* The programs of the tests, and one whose root declares a command named help.
Programs ==
    {Program(r, NilFunc) :
        r \in {"persistentFlagsCommand", "rootCommand", "rootCommandWithFlags",
               "rootCommandWithFlagsAndPersistentFlags", "hostRootCommand"}}
      \cup {Program("simpleCommand", GlobalFlagsFunc)}

\* Programs that misuse the package: no root command (the zero Program of
\* TestRunRootCommandNotImplemented among them), or a tree in which two
\* siblings have the same name.
MisusePrograms ==
    {[Program("", NilFunc) EXCEPT !.Output = NilWriter],
     Program("", GlobalFlagsFunc),
     Program("badRootCommand", NilFunc),
     Program("deepBadRootCommand", GlobalFlagsFunc),
     Program("shadowRootCommand", GlobalFlagsFunc)}

\* A GlobalFlags function declaring a name the root declares as persistent.
ClashingGlobalFlagsFunc ==
    [nil |-> FALSE, decls |-> {Flag("persistentflag", "string", "global", "", "global flag")}]

\* Programs whose invocations call global, persistent and local contributors.
FlagPrograms ==
    {Program("flagsRootCommand", GlobalFlagsFunc),
     Program("flagsRootCommand", ClashingGlobalFlagsFunc),
     Program("flagsInnerCommand", NilFunc)}

\* Programs on which Run is called twice; the first leaves Output unset.
TwicePrograms ==
    {[Program("simpleCommand", GlobalFlagsFunc) EXCEPT !.Output = NilWriter],
     Program("flagsInnerCommand", NilFunc),
     Program("rootCommand", NilFunc)}

-----------------------------------------------------------------------------
(* The flag registry (package flag of the Go standard library, used through *)
(* p.fs): formal is the set of declared flags, actual the values set by     *)
(* Parse, args the arguments left after the flags, redefined whether a      *)
(* declaration repeated a name (FlagSet.Var panics "flag redefined").       *)
NewFlagSet == [formal |-> {}, actual |-> {}, args |-> <<>>, redefined |-> FALSE]

FormalNames(fs) == {f.name : f \in fs.formal}
Lookup(fs, name) == CHOOSE f \in fs.formal : f.name = name

\* A registry in which a later declaration replaces an earlier one.
DefineOverride(fs, decls) ==
    [fs EXCEPT !.formal = {f \in @ : f.name \notin {d.name : d \in decls}} \cup decls]

\* One contributor call: every declaration in decls is made on fs.
Define(fs, decls) ==
    [fs EXCEPT !.formal = @ \cup {d \in decls : d.name \notin FormalNames(fs)},
               !.redefined = @ \/ \E d \in decls : d.name \in FormalNames(fs)]

(* Errors: kind is the error's origin, msg its message, path the names the   *)
(* message quotes, code the exit code an ExitError carries.                 *)
Error(kind, msg, path, code) == [kind |-> kind, msg |-> msg, path |-> path, code |-> code]
Nil == Error("nil", "", <<>>, 0)
ErrHelp == Error("flag", "flag: help requested", <<>>, 0)
FlagError(msg, name) == Error("flag", msg, <<name>>, 0)

\* flag.Value.Set: the tokens of the model are words, never numbers.
SetFails(f, value) == f.typ \in {"int", "duration"}

(* FlagSet.Parse: parseOne is repeated until it meets a non-flag argument,   *)
(* the terminator -- or an error.                                            *)
RECURSIVE ParseLoop(_, _, _)
ParseLoop(fs, arguments, actual) ==
    LET done(err, rest) == [err |-> err, args |-> rest, actual |-> actual]
    IN
    IF arguments = <<>> THEN done(Nil, <<>>)
    ELSE
      LET s == Head(arguments)
          rest == Tail(arguments)
      IN
      IF s.d = 0 \/ (s.d = 1 /\ s.s = "") THEN done(Nil, arguments)
      ELSE IF s.d = 2 /\ s.s = "" THEN done(Nil, rest)
      ELSE IF s.d > 2 THEN done(FlagError("bad flag syntax", s.s), arguments)
      ELSE IF s.s \notin FormalNames(fs) THEN
          IF s.s \in {"help", "h"} THEN done(ErrHelp, rest)
          ELSE done(FlagError("flag provided but not defined", s.s), rest)
      ELSE
        LET f == Lookup(fs, s.s) IN
        IF IsBoolFlag(f) THEN ParseLoop(fs, rest, actual \cup {<<f.name, Tok(0, "true")>>})
        ELSE IF rest = <<>> THEN done(FlagError("flag needs an argument", s.s), rest)
        ELSE IF SetFails(f, Head(rest)) THEN done(FlagError("invalid value", s.s), Tail(rest))
        ELSE ParseLoop(fs, Tail(rest), actual \cup {<<f.name, Head(rest)>>})

\* p.fs.Parse(arguments): the error, and the registry with actual and args set.
Parse(fs, arguments) ==
    LET r == ParseLoop(fs, arguments, {})
    IN  [err |-> r.err, fs |-> [fs EXCEPT !.actual = r.actual, !.args = r.args]]

-----------------------------------------------------------------------------
(* clino.go                                                                 *)

\* func isRunnable(cmd Command) bool
isRunnable(cmd) == Implements(cmd, "Runnable")

\* func getSubcommands(cmd Command) []Command
getSubcommands(cmd) == IF Implements(cmd, "Parent") THEN Command(cmd).commands ELSE <<>>

\* An unknown-command error that leaves the binary's name out.
commandNotFoundNoBinary(binary, trail) == Error("clino", "unknown command", trail, 0)

\* func commandNotFound(binary string, trail []string) error
commandNotFound(binary, trail) == Error("clino", "unknown command", <<binary>> \o trail, 0)

\* func skipHelpCommand(args []string) []string
skipHelpCommand(args) ==
    IF Len(args) # 0 /\ args[1] = Tok(0, "help") THEN Tail(args) ELSE args

\* func getCommandArgs(args []string) (out []string)
RECURSIVE getCommandArgs(_)
getCommandArgs(args) ==
    IF args = <<>> THEN <<>>
    ELSE IF HasPrefixDash(Head(args)) THEN <<>>
    ELSE <<Head(args)>> \o getCommandArgs(Tail(args))

\* func getCommand(commands []Command, name string) (cmd Command, ok bool)
getCommand(commands, name) ==
    LET found == {i \in 1..Len(commands) : name = Tok(0, Name(commands[i]))}
    IN  IF found = {} THEN [ok |-> FALSE, cmd |-> ""]
        ELSE [ok |-> TRUE, cmd |-> commands[Min(found)]]

\* A walk that keeps searching the sibling group it started in.
RECURSIVE walkFromSameGroup(_, _, _)
walkFromSameGroup(current, names, trail) ==
    IF names = <<>> THEN trail
    ELSE LET r == getCommand(current, Head(names))
         IN  IF ~r.ok THEN trail
             ELSE walkFromSameGroup(current, Tail(names), Append(trail, r.cmd))

\* The loop of walkCommand: current is the sibling group searched next.
RECURSIVE walkFrom(_, _, _)
walkFrom(current, names, trail) ==
    IF names = <<>> THEN trail
    ELSE LET r == getCommand(current, Head(names))
         IN  IF ~r.ok THEN trail
             ELSE walkFrom(getSubcommands(r.cmd), Tail(names), Append(trail, r.cmd))

\* func (p *Program) walkCommand(commands []Command, names []string) (trail []Command)
walkCommand(p, commands, names) == walkFrom(commands, names, <<p.Root>>)

\* func (p *Program) loadCommand(ctx context.Context, args []string) []Command
loadCommand(p, args) == walkCommand(p, getSubcommands(p.Root), getCommandArgs(args))

\* A check that looks at the children of the root only.
checkDuplicatedShallow(cmd) ==
    \E i, j \in 1..Len(getSubcommands(cmd)) :
        i < j /\ Name(getSubcommands(cmd)[i]) = Name(getSubcommands(cmd)[j])

\* func checkDuplicated(cmd Command, trail []string): TRUE when it panics.
RECURSIVE checkDuplicated(_)
checkDuplicated(cmd) ==
    LET cs == getSubcommands(cmd)
    IN  \/ \E i, j \in 1..Len(cs) : i < j /\ Name(cs[i]) = Name(cs[j])
        \/ \E i \in 1..Len(cs) : checkDuplicated(cs[i])

-----------------------------------------------------------------------------
(* help.go.  The text written to the output sink is a sequence of blocks,   *)
(* one per Fprint call of helper.Run.                                       *)

\* func argumentsNonFlags(args []string) (nargs []string)
RECURSIVE argumentsNonFlags(_)
argumentsNonFlags(args) ==
    IF args = <<>> THEN <<>>
    ELSE IF HasPrefixDash(Head(args)) THEN <<>>
    ELSE <<Head(args)>> \o argumentsNonFlags(Tail(args))

\* func isZeroValue(f *flag.Flag, value string) bool
isZeroValue(f, value) == value = f.zero

\* func printFlag(w io.Writer, f *flag.Flag)
printFlag(f) ==
    [name |-> f.name, typ |-> f.typ, usage |-> f.usage,
     default |-> IF isZeroValue(f, f.def) THEN <<>>
                 ELSE IF f.typ = "string" THEN <<"quoted", f.def>>
                 ELSE <<"plain", f.def>>]

\* func (h *helper) helpCommands(w io.Writer)
helpCommands(h) ==
    IF Len(h.Commands) = 0 THEN <<>>
    ELSE <<[t |-> "Commands",
            list |-> [i \in 1..Len(h.Commands) |->
                        <<Name(h.Commands[i]),
                          IF Implements(h.Commands[i], "Shorter")
                          THEN Short(h.Commands[i]) ELSE "">>]]>>

\* func (h *helper) helpFlags(w io.Writer): VisitAll visits the flags in
\* lexicographical order, so the block is determined by the set of flags.
helpFlags(h) ==
    <<[t |-> "Flags", flags |-> {printFlag(f) : f \in h.fs.formal}, help |-> "-help"]>>

\* The names of the tokens in a trail of strings.
Words(toks) == [i \in 1..Len(toks) |-> toks[i].s]

\* A helper.Run whose deferred check replaces the error of the rendering by
\* the unknown-command error instead of keeping it.
helperRunUnknownFirst(h) ==
    LET command == IF h.trail = <<>> THEN <<"<command>">> ELSE h.trail
        xcmd == IF h.trail # <<>> /\ Len(h.Commands) # 0 THEN <<"<command>">> ELSE <<>>
        long == IF ~h.Long.nil THEN <<[t |-> "Long", s |-> Long(h.Long.cmd)]>> ELSE <<>>
        blank == IF ~h.Long.nil /\ h.usable THEN <<[t |-> "blank"]>> ELSE <<>>
        usage == IF h.usable
                 THEN <<[t |-> "Usage", binary |-> h.binary, command |-> command \o xcmd]>>
                 ELSE <<>>
        flags == IF h.usable THEN helpFlags(h) ELSE <<>>
        use == IF Len(h.Commands) # 0
               THEN <<[t |-> "Use", binary |-> h.binary, command |-> command \o xcmd]>>
               ELSE <<>>
        foot == IF ~h.Foot.nil THEN <<[t |-> "Foot", s |-> Foot(h.Foot.cmd)]>> ELSE <<>>
        err == IF ~h.usable /\ h.Long.nil /\ h.Foot.nil
               THEN Error("clino", "missing implementation", h.trail, 0)
               ELSE Nil
        na == Words(argumentsNonFlags(h.args))
    IN  [text |-> long \o blank \o usage \o helpCommands(h) \o flags \o use \o foot,
         err |-> IF ~h.runnable /\ Len(na) > Len(h.trail)
                 THEN commandNotFound(h.binary, SubSeq(na, 1, Len(h.trail) + 1))
                 ELSE err]

\* func (h *helper) Run(ctx context.Context) (err error)
helperRun(h) ==
    LET command == IF h.trail = <<>> THEN <<"<command>">> ELSE h.trail
        xcmd == IF h.trail # <<>> /\ Len(h.Commands) # 0 THEN <<"<command>">> ELSE <<>>
        long == IF ~h.Long.nil THEN <<[t |-> "Long", s |-> Long(h.Long.cmd)]>> ELSE <<>>
        blank == IF ~h.Long.nil /\ h.usable THEN <<[t |-> "blank"]>> ELSE <<>>
        usage == IF h.usable
                 THEN <<[t |-> "Usage", binary |-> h.binary, command |-> command \o xcmd]>>
                 ELSE <<>>
        flags == IF h.usable THEN helpFlags(h) ELSE <<>>
        use == IF Len(h.Commands) # 0
               THEN <<[t |-> "Use", binary |-> h.binary, command |-> command \o xcmd]>>
               ELSE <<>>
        foot == IF ~h.Foot.nil THEN <<[t |-> "Foot", s |-> Foot(h.Foot.cmd)]>> ELSE <<>>
        err == IF ~h.usable /\ h.Long.nil /\ h.Foot.nil
               THEN Error("clino", "missing implementation", h.trail, 0)
               ELSE Nil
        na == Words(argumentsNonFlags(h.args))
    IN  [text |-> long \o blank \o usage \o helpCommands(h) \o flags \o use \o foot,
         err |-> IF err = Nil /\ ~h.runnable /\ Len(na) > Len(h.trail)
                 THEN commandNotFound(h.binary, SubSeq(na, 1, Len(h.trail) + 1))
                 ELSE err]

-----------------------------------------------------------------------------
(* clino.go: dispatch.  An invocation's record holds what it returned (err), *)
(* what it wrote to the sink (text), the registry it left (fs), the trails  *)
(* resolved by runCommand and runHelp, and the calls it made, in order      *)
(* (events).                                                                *)
NoFunc == [nil |-> TRUE]
Method(cmd) == [nil |-> FALSE, cmd |-> cmd]

Last(q) == q[Len(q)]

\* A setUsableHelp that never records the command as runnable.
setUsableHelpNotRunnable(cmd, h) ==
    [h EXCEPT !.runnable = FALSE,
              !.usable = Implements(cmd, "Runnable") \/ Implements(cmd, "Parent")]

\* A setUsableHelp that takes every command for a usable one.
setUsableHelpAlways(cmd, h) ==
    [h EXCEPT !.runnable = Implements(cmd, "Runnable"), !.usable = TRUE]

\* func (p *Program) setUsableHelp(cmd Command, h *helper)
setUsableHelp(cmd, h) ==
    [h EXCEPT !.runnable = Implements(cmd, "Runnable"),
              !.usable = Implements(cmd, "Runnable") \/ Implements(cmd, "Parent")]

\* A runHelp that resolves its trail from the arguments as they came, the
\* leading help included.
helpArgsKept(args) == args

\* clino.go:204-206: runHelp drops a leading help.
helpArgs(args) == IF Len(args) >= 1 /\ args[1] = Tok(0, "help") THEN Tail(args) ELSE args

\* clino.go:209-231: the helper runHelp makes for the command cmd.
newHelper(p, fs, args, trail, cmd) ==
    [Output |-> p.Output,
     Commands |-> getSubcommands(cmd),
     binary |-> Name(p.Root),
     trail |-> Tail([i \in 1..Len(trail) |-> Name(trail[i])]),
     args |-> args,
     fs |-> fs,
     Long |-> IF Implements(cmd, "Longer") THEN Method(cmd) ELSE NoFunc,
     Foot |-> IF Implements(cmd, "Footer") THEN Method(cmd) ELSE NoFunc,
     runnable |-> FALSE,
     usable |-> FALSE]

\* What runHelp returns and did, r being what h.Run returned and wrote.
helped(fs, trail, cmd, r) ==
    [err |-> r.err, text |-> r.text, fs |-> fs, helpTrail |-> trail,
     events |-> <<[e |-> "Help", cmd |-> cmd]>>]

\* clino.go:208-233: help for the last command of the trail.
helpOn(p, fs, args, trail) ==
    helped(fs, trail, Last(trail),
           helperRun(setUsableHelp(Last(trail), newHelper(p, fs, args, trail, Last(trail)))))

\* clino.go:207: the trail is resolved from the arguments again.
helpWith(p, fs, args) ==
    helpOn(p, fs, args, walkCommand(p, getSubcommands(p.Root), getCommandArgs(args)))

\* func (p *Program) runHelp(ctx context.Context, args []string) error
runHelp(p, fs, args) == helpWith(p, fs, helpArgs(args))

\* Contributors in which only the ancestors of the last command are asked for
\* persistent flags.
ContributorsAncestorsOnly(trail) ==
    SelectSeq([i \in 1..Len(trail) - 1 |->
                  [e |-> "PersistentFlags", cmd |-> trail[i],
                   decls |-> Command(trail[i]).pflags]],
              LAMBDA c : Implements(c.cmd, "PersistentFlagSet"))
    \o (IF Implements(Last(trail), "FlagSet")
        THEN <<[e |-> "Flags", cmd |-> Last(trail), decls |-> Command(Last(trail)).flags]>>
        ELSE <<>>)

\* Contributors called with the command's own flags before the inherited ones.
ContributorsLocalFirst(trail) ==
    (IF Implements(Last(trail), "FlagSet")
     THEN <<[e |-> "Flags", cmd |-> Last(trail), decls |-> Command(Last(trail)).flags]>>
     ELSE <<>>)
    \o SelectSeq([i \in 1..Len(trail) |->
                     [e |-> "PersistentFlags", cmd |-> trail[i],
                      decls |-> Command(trail[i]).pflags]],
                 LAMBDA c : Implements(c.cmd, "PersistentFlagSet"))

\* The flag contributors runCommand calls for a trail, in its order.
Contributors(trail) ==
    LET pers == SelectSeq([i \in 1..Len(trail) |->
                              [e |-> "PersistentFlags", cmd |-> trail[i],
                               decls |-> Command(trail[i]).pflags]],
                          LAMBDA c : Implements(c.cmd, "PersistentFlagSet"))
        cmd == Last(trail)
    IN  pers \o (IF Implements(cmd, "FlagSet")
                 THEN <<[e |-> "Flags", cmd |-> cmd, decls |-> Command(cmd).flags]>>
                 ELSE <<>>)

\* The contributors are called one after the other on the same registry; a
\* redefinition panics and nothing after it is called.
RECURSIVE Contribute(_, _, _)
Contribute(fs, calls, done) ==
    IF calls = <<>> \/ fs.redefined THEN [fs |-> fs, events |-> done]
    ELSE Contribute(Define(fs, Head(calls).decls), Tail(calls),
                    Append(done, [e |-> Head(calls).e, cmd |-> Head(calls).cmd]))

Panic(msg) == Error("panic", msg, <<>>, 0)

\* A help test that forgets the help word.
helpRequestedNoWord(p, args) == Len(args) = 0 /\ ~isRunnable(p.Root)

\* clino.go:187: the invocation asks for help before any flag is parsed.
helpRequested(p, args) ==
    \/ (Len(args) = 0 /\ ~isRunnable(p.Root))
    \/ (Len(args) # 0 /\ args[1] = Tok(0, "help"))

\* A dispatch that takes every command for a runnable one.
asRunnableAlways(cmd) == TRUE

\* clino.go:190: r, ok := cmd.(Runnable)
asRunnable(cmd) == Implements(cmd, "Runnable")

\* Flag arguments taken one position too far: args[len(trail):].
flagArgumentsOffByOne(args, trail) == SubSeq(args, Len(trail) + 1, Len(args))

\* clino.go:191: args[len(trail)-1:], the arguments handed to p.fs.Parse.
flagArguments(args, trail) == SubSeq(args, Len(trail), Len(args))

\* A test that takes every parse error for a help request, and one that
\* takes none for it.
isErrHelpAnyError(e) == e # Nil
isErrHelpNever(e) == FALSE

\* clino.go:192: err == flag.ErrHelp
isErrHelp(e) == e = ErrHelp

\* An action call that drops the action's error, and one that drops the
\* arguments.
runActionDropError(cmd, fs, ret) ==
    [err |-> Nil, events |-> <<[e |-> "Run", cmd |-> cmd, args |-> fs.args]>>]
runActionNoArgs(cmd, fs, ret) ==
    [err |-> ret, events |-> <<[e |-> "Run", cmd |-> cmd, args |-> <<>>]>>]

\* clino.go:198: return r.Run(ctx, p.fs.Args()...), the action returning ret.
runAction(cmd, fs, ret) ==
    [err |-> ret, events |-> <<[e |-> "Run", cmd |-> cmd, args |-> fs.args]>>]

\* What runCommand returns once its outcome is settled: the error e, the
\* registry as it is left and the calls made.
stop(trail, e, fs, events) ==
    [err |-> e, text |-> <<>>, fs |-> fs, helpTrail |-> <<>>,
     events |-> events, trail |-> trail]

\* A help that writes nothing when it has an error to return.
helpErrorOnly(p, args, trail, fs, before) ==
    [runHelp(p, fs, args) EXCEPT !.events = before \o @,
                                 !.text = IF runHelp(p, fs, args).err = Nil THEN @ ELSE <<>>]
        @@ [trail |-> trail]

\* clino.go:188,194,200: return p.runHelp(ctx, args), after the calls before.
help(p, args, trail, fs, before) ==
    [runHelp(p, fs, args) EXCEPT !.events = before \o @] @@ [trail |-> trail]

\* A dispatch that does not return after the help it renders for a help
\* flag and goes on to the action.
afterParseFallThrough(p, args, ret, trail, before, parsed) ==
    IF isErrHelp(parsed.err)
    THEN [help(p, args, trail, parsed.fs, before) EXCEPT
             !.events = @ \o runAction(Last(trail), parsed.fs, ret).events]
    ELSE IF parsed.err # Nil THEN stop(trail, parsed.err, parsed.fs, before)
    ELSE [runAction(Last(trail), parsed.fs, ret) EXCEPT
             !.events = before \o @] @@
         [text |-> <<>>, fs |-> parsed.fs, helpTrail |-> <<>>, trail |-> trail]

\* clino.go:192-198: what follows p.fs.Parse, parsed being what it returned.
afterParse(p, args, ret, trail, before, parsed) ==
    IF isErrHelp(parsed.err) THEN help(p, args, trail, parsed.fs, before)
    ELSE IF parsed.err # Nil THEN stop(trail, parsed.err, parsed.fs, before)
    ELSE [runAction(Last(trail), parsed.fs, ret) EXCEPT
             !.events = before \o @] @@
         [text |-> <<>>, fs |-> parsed.fs, helpTrail |-> <<>>, trail |-> trail]

\* clino.go:187-200: what follows the contributors' calls, c being the
\* registry they left and the calls made.
afterFlags(p, args, ret, trail, c) ==
    IF c.fs.redefined THEN stop(trail, Panic("flag redefined"), c.fs, c.events)
    ELSE IF helpRequested(p, args) THEN help(p, args, trail, c.fs, c.events)
    ELSE IF asRunnable(Last(trail)) THEN
        afterParse(p, args, ret, trail,
                   c.events \o <<[e |-> "Parse", args |-> flagArguments(args, trail)]>>,
                   Parse(c.fs, flagArguments(args, trail)))
    ELSE help(p, args, trail, c.fs, c.events)

\* clino.go:178-186: the contributors are called on p.fs for the trail.
withFlags(p, args, ret, trail) ==
    afterFlags(p, args, ret, trail, Contribute(p.fs, Contributors(trail), <<>>))

\* func (p *Program) runCommand(ctx context.Context, args []string) error
\* ret is what the action returns if it is invoked.
runCommand(p, args, ret) == withFlags(p, args, ret, loadCommand(p, skipHelpCommand(args)))

NilCommand == ""

\* What Run returns when it panics before runCommand.
abort(q, msg) ==
    [err |-> Panic(msg), text |-> <<>>, fs |-> q.fs, helpTrail |-> <<>>,
     events |-> <<>>, trail |-> <<>>, p |-> q]

\* The Program as a call that returned r leaves it: p.fs is the registry.
left(q, global, r) == [r EXCEPT !.events = global \o @] @@ [p |-> [q EXCEPT !.fs = r.fs]]

\* A start that makes a registry only when the Program has none yet.
startedReusing(q, args, ret) ==
    IF q.GlobalFlags.nil
    THEN left(q, <<>>,
              runCommand([q EXCEPT !.fs = IF @ = NilFlagSet THEN NewFlagSet ELSE @], args, ret))
    ELSE left(q, <<[e |-> "GlobalFlags"]>>,
              runCommand([q EXCEPT !.fs = Define(IF @ = NilFlagSet THEN NewFlagSet ELSE @,
                                                 q.GlobalFlags.decls)], args, ret))

\* clino.go:126-132: p.fs is a new registry, GlobalFlags declares on it.
started(q, args, ret) ==
    IF q.GlobalFlags.nil
    THEN left(q, <<>>, runCommand([q EXCEPT !.fs = NewFlagSet], args, ret))
    ELSE left(q, <<[e |-> "GlobalFlags"]>>,
              runCommand([q EXCEPT !.fs = Define(NewFlagSet, q.GlobalFlags.decls)], args, ret))

\* A Run that leaves a nil Output as it is.
withOutputKept(q) == q

\* clino.go:120-122: a nil Output becomes os.Stdout.
withOutput(q) == IF q.Output = NilWriter THEN [q EXCEPT !.Output = "os.Stdout"] ELSE q

\* func (p *Program) Run(ctx context.Context, args ...string) error
\* The record also holds the Program as the call leaves it (p).
ProgramRun(q, args, ret) ==
    IF q.Root = NilCommand THEN abort(withOutput(q), "root command not implemented")
    ELSE IF checkDuplicated(q.Root) THEN abort(withOutput(q), "command implemented multiple times")
    ELSE started(withOutput(q), args, ret)

-----------------------------------------------------------------------------
(* exit.go.  An error value is the chain errors.Unwrap walks, outermost     *)
(* first; nil is the empty chain.  An ExitError carries Code and wraps Err  *)
(* (nothing when Err is nil), fmt.Errorf("%w") wraps, errors.New and        *)
(* *exec.ExitError wrap nothing.  The state of a child process is its       *)
(* syscall.WaitStatus ws: the low seven bits are zero when it exited, and   *)
(* the next eight bits are then its exit status.                            *)
ExitError(code) == [kind |-> "ExitError", code |-> code]
Wrapped == [kind |-> "fmt.Errorf"]
ErrorsNew == [kind |-> "errors.New"]
ExecExitError(ws) == [kind |-> "exec.ExitError", ws |-> ws]

\* func (w WaitStatus) Exited() bool, func (w WaitStatus) ExitStatus() int
Exited(ws) == ws % 128 = 0
ExitStatus(ws) == IF ~Exited(ws) THEN -1 ELSE (ws \div 256) % 256

\* An errors.As that does not unwrap.
AsOutermost(err, kind) ==
    IF err # <<>> /\ Head(err).kind = kind THEN [ok |-> TRUE, target |-> Head(err)]
    ELSE [ok |-> FALSE]

\* errors.As(err, &target): the first error of the chain of the target's type.
RECURSIVE As(_, _)
As(err, kind) ==
    IF err = <<>> THEN [ok |-> FALSE]
    ELSE IF Head(err).kind = kind THEN [ok |-> TRUE, target |-> Head(err)]
    ELSE As(Tail(err), kind)

\* An ExitCode that looks for the child process's error first.
ExitCodeExecFirst(err) ==
    IF err = <<>> THEN 0
    ELSE IF As(err, "exec.ExitError").ok /\ Exited(As(err, "exec.ExitError").target.ws)
         THEN ExitStatus(As(err, "exec.ExitError").target.ws)
    ELSE IF As(err, "ExitError").ok THEN As(err, "ExitError").target.code
    ELSE 1

\* func ExitCode(err error) int
ExitCode(err) ==
    IF err = <<>> THEN 0
    ELSE IF As(err, "ExitError").ok THEN As(err, "ExitError").target.code
    ELSE IF As(err, "exec.ExitError").ok /\ Exited(As(err, "exec.ExitError").target.ws)
         THEN ExitStatus(As(err, "exec.ExitError").target.ws)
    ELSE 1

\* The errors handed to ExitCode: codes of ExitError values, states of child
\* processes (exit status 1, 2 and 255; killed by signal 9; signal 11 with a
\* core dump; stopped), and what wraps them.
ExitCodes == {0, 2, 3}
WaitStatuses == {256, 512, 65280, 9, 139, 4991}
Innermost ==
    {<<ErrorsNew>>} \cup {<<ExitError(c)>> : c \in ExitCodes}
        \cup {<<ExecExitError(ws)>> : ws \in WaitStatuses}
Errors ==
    {<<>>} \cup
    {w \o e : w \in SeqsUpTo({Wrapped} \cup {ExitError(c) : c \in ExitCodes}, MaxWrap),
              e \in Innermost}

-----------------------------------------------------------------------------
(* The state machine: a caller builds a Program and calls Run on it with an *)
(* argument vector.                                                         *)
VARIABLES
    p,          \* the Program value
    called,     \* whether p.Run has been called and has ended
    args,       \* the arguments of the invocation
    ret,        \* what the action returned, if it was invoked
    err,        \* what the invocation returned
    text,       \* what the invocation wrote to the output sink
    events,     \* the calls the invocation made, in order
    trail,      \* the trail runCommand resolved
    helpTrail,  \* the trail runHelp resolved, if it was called
    first,      \* what the first of two calls on the Program returned and wrote
    exit,       \* the exit code ExitCode returned, once it was called
    inv,        \* two calls of Run that overlap: where each is, what it did
    regs,       \* the registries the overlapping calls made
    ptr         \* the registry p.fs points at while calls overlap

vars == <<p, called, args, ret, err, text, events, trail, helpTrail,
          first, exit, inv, regs, ptr>>

\* What an action may return: nil, errors.New(...), ExitError{Code: 2, ...}.
ActionReturns ==
    {Nil, Error("errors.New", "cannot find system", <<>>, 0),
     Error("ExitError", "cannot find system", <<>>, 2)}

\* No call of Run has been made on the Program.
Idle ==
    /\ called = FALSE
    /\ args = <<>>
    /\ ret = Nil
    /\ err = Nil
    /\ text = <<>>
    /\ events = <<>>
    /\ trail = <<>>
    /\ helpTrail = <<>>
    /\ first = <<>>

\* No two calls overlap.
NoOverlap ==
    /\ inv = <<>>
    /\ regs = <<>>
    /\ ptr = 0

Init ==
    /\ p \in Programs
    /\ Idle
    /\ exit = <<>>
    /\ NoOverlap

Invoked(evs) == \E i \in 1..Len(evs) : evs[i].e = "Run"

\* One whole call p.Run(ctx, a...), the action returning r if it is invoked.
Run ==
    /\ ~called
    /\ \E a \in ArgVectors, r \in ActionReturns :
         \E res \in {ProgramRun(p, a, r)} :
            /\ p' = res.p
            /\ called' = TRUE
            /\ args' = a
            /\ ret' = IF Invoked(res.events) THEN r ELSE Nil
            /\ err' = res.err
            /\ text' = res.text
            /\ events' = res.events
            /\ trail' = res.trail
            /\ helpTrail' = res.helpTrail
    /\ UNCHANGED <<first, exit, inv, regs, ptr>>

Next == Run

Spec == Init /\ [][Next]_vars

\* The same call on a Program that misuses the package.
InitMisuse ==
    /\ p \in MisusePrograms
    /\ Idle
    /\ exit = <<>>
    /\ NoOverlap

SpecMisuse == InitMisuse /\ [][Next]_vars

\* The same call on a Program with flag contributors at every level.
InitFlags ==
    /\ p \in FlagPrograms
    /\ Idle
    /\ exit = <<>>
    /\ NoOverlap

SpecFlags == InitFlags /\ [][Next]_vars

(* Run is called a second time on the same Program value, with the same    *)
(* arguments, the action returning what it returned the first time.         *)
InitTwice ==
    /\ p \in TwicePrograms
    /\ Idle
    /\ exit = <<>>
    /\ NoOverlap

RunAgain ==
    /\ called
    /\ first = <<>>
    /\ \E res \in {ProgramRun(p, args, ret)} :
         /\ first' = <<[err |-> err, text |-> text, events |-> events, p |-> p]>>
         /\ p' = res.p
         /\ err' = res.err
         /\ text' = res.text
         /\ events' = res.events
         /\ trail' = res.trail
         /\ helpTrail' = res.helpTrail
    /\ UNCHANGED <<called, args, ret, exit, inv, regs, ptr>>

NextTwice == Run \/ RunAgain

SpecTwice == InitTwice /\ [][NextTwice]_vars

(* Two calls of Run on the same Program value overlap, as when two          *)
(* goroutines call p.Run.  Each call is a sequence of steps, one per access *)
(* to p.fs; p.fs is a pointer (ptr) to a registry (regs), and a step works  *)
(* on the registry p.fs points at when the step is taken.  The accesses are *)
(* not synchronised: the steps interleave in any order, and two accesses to *)
(* the maps of one registry at the same time, one of them a write, may end  *)
(* the process (fatal error: concurrent map writes).                        *)
OverlapTokens == {Tok(0, "simple"), Tok(0, "help"), Tok(1, "name"), Tok(0, "notfound")}
OverlapArgs == SeqsUpTo(OverlapTokens, MaxOverlapArgs)
OverlapPrograms == {Program("simpleCommand", GlobalFlagsFunc), Program("flagsInnerCommand", NilFunc)}

\* A call that has not started: used is the set of registries it worked on,
\* got the arguments its action received.
Pending(a) ==
    [pc |-> "start", args |-> a, trail |-> <<>>, calls |-> <<>>, used |-> {},
     err |-> Nil, text |-> <<>>, got |-> <<>>]

InitOverlap ==
    /\ p \in OverlapPrograms
    /\ Idle
    /\ exit = <<>>
    /\ inv \in [1..2 -> {Pending(a) : a \in OverlapArgs}]
    /\ regs = [i \in 1..2 |-> NilFlagSet]
    /\ ptr = 0

\* A step of an overlapping call leaves the rest as it is.
Apart == UNCHANGED <<p, called, args, ret, err, text, events, trail, helpTrail, first, exit>>

\* clino.go:187-190: where runCommand goes once the contributors are called.
Dispatched(a, t) ==
    IF helpRequested(p, a) THEN "help"
    ELSE IF asRunnable(Last(t)) THEN "parse"
    ELSE "help"

\* The contributors a call has to call: GlobalFlags, then those of the trail.
CallsOf(t) ==
    (IF p.GlobalFlags.nil THEN <<>>
     ELSE <<[e |-> "GlobalFlags", cmd |-> p.Root, decls |-> p.GlobalFlags.decls]>>)
    \o Contributors(t)

Started(r, t) ==
    [r EXCEPT !.trail = t, !.calls = CallsOf(t),
              !.pc = IF CallsOf(t) = <<>> THEN Dispatched(r.args, t) ELSE "flags"]

\* clino.go:127: p.fs = flag.NewFlagSet(...)
StepStart(i) ==
    /\ inv[i].pc = "start"
    /\ regs' = [regs EXCEPT ![i] = NewFlagSet]
    /\ ptr' = i
    /\ inv' = [inv EXCEPT ![i] = Started(@, loadCommand(p, skipHelpCommand(@.args)))]
    /\ Apart

Declared(r, k, fs) ==
    IF fs.redefined THEN [r EXCEPT !.pc = "done", !.err = Panic("flag redefined"),
                                   !.used = @ \cup {k}]
    ELSE [r EXCEPT !.calls = Tail(@), !.used = @ \cup {k},
                   !.pc = IF Tail(r.calls) = <<>> THEN Dispatched(r.args, r.trail) ELSE "flags"]

\* clino.go:130,181,185: p.GlobalFlags(p.fs), f.PersistentFlags(p.fs), f.Flags(p.fs)
StepDeclare(i) ==
    /\ inv[i].pc = "flags"
    /\ \E k \in {ptr} : \E fs \in {Define(regs[k], Head(inv[i].calls).decls)} :
         /\ regs' = [regs EXCEPT ![k] = [fs EXCEPT !.redefined = FALSE]]
         /\ inv' = [inv EXCEPT ![i] = Declared(@, k, fs)]
    /\ ptr' = ptr
    /\ Apart

Parsed1(r, k, parsed) ==
    IF isErrHelp(parsed.err) THEN [r EXCEPT !.pc = "help", !.used = @ \cup {k}]
    ELSE IF parsed.err # Nil THEN [r EXCEPT !.pc = "done", !.err = parsed.err, !.used = @ \cup {k}]
    ELSE [r EXCEPT !.pc = "action", !.used = @ \cup {k}]

\* clino.go:191: err := p.fs.Parse(args[len(trail)-1:])
StepParse(i) ==
    /\ inv[i].pc = "parse"
    /\ \E k \in {ptr} :
         \E parsed \in {Parse(regs[k], flagArguments(inv[i].args, inv[i].trail))} :
            /\ regs' = [regs EXCEPT ![k] = parsed.fs]
            /\ inv' = [inv EXCEPT ![i] = Parsed1(@, k, parsed)]
    /\ ptr' = ptr
    /\ Apart

\* clino.go:198: return r.Run(ctx, p.fs.Args()...), the action returning nil.
StepAction(i) ==
    /\ inv[i].pc = "action"
    /\ inv' = [inv EXCEPT ![i] = [@ EXCEPT !.pc = "done", !.got = regs[ptr].args,
                                           !.used = @ \cup {ptr}]]
    /\ UNCHANGED <<regs, ptr>>
    /\ Apart

Helped(r, k, h) == [r EXCEPT !.pc = "done", !.err = h.err, !.text = h.text, !.used = @ \cup {k}]

\* clino.go:188,194,200: return p.runHelp(ctx, args), which reads p.fs.
StepHelp(i) ==
    /\ inv[i].pc = "help"
    /\ inv' = [inv EXCEPT ![i] = Helped(@, ptr, runHelp(p, regs[ptr], @.args))]
    /\ UNCHANGED <<regs, ptr>>
    /\ Apart

\* Both calls are about to work on the maps of the registry p.fs points at
\* and one of them is about to write: run at the same time, the steps may end
\* the process.
StepFatal ==
    /\ \A i \in 1..2 : inv[i].pc \in {"flags", "parse", "help"}
    /\ \E i \in 1..2 : inv[i].pc \in {"flags", "parse"}
    /\ inv' = [i \in 1..2 |-> [inv[i] EXCEPT !.pc = "fatal"]]
    /\ UNCHANGED <<regs, ptr>>
    /\ Apart

NextOverlap ==
    \/ \E i \in 1..2 : StepStart(i)
    \/ \E i \in 1..2 : StepDeclare(i)
    \/ \E i \in 1..2 : StepParse(i)
    \/ \E i \in 1..2 : StepAction(i)
    \/ \E i \in 1..2 : StepHelp(i)
    \/ StepFatal

SpecOverlap == InitOverlap /\ [][NextOverlap]_vars

(* main hands an error to ExitCode: os.Exit(clino.ExitCode(err)).  Here err *)
(* is the chain of the error handed over.                                   *)
InitExit ==
    /\ p \in {Program("simpleCommand", NilFunc)}
    /\ called = TRUE
    /\ args = <<>>
    /\ ret = Nil
    /\ err \in Errors
    /\ text = <<>>
    /\ events = <<>>
    /\ trail = <<>>
    /\ helpTrail = <<>>
    /\ first = <<>>
    /\ exit = <<>>
    /\ NoOverlap

CallExitCode ==
    /\ called
    /\ exit = <<>>
    /\ exit' = <<ExitCode(err)>>
    /\ UNCHANGED <<p, called, args, ret, err, text, events, trail, helpTrail,
                   first, inv, regs, ptr>>

NextExit == CallExitCode

SpecExit == InitExit /\ [][NextExit]_vars

-----------------------------------------------------------------------------
(* Vocabulary of the properties.                                            *)

\* The invocation is in help-mode: its first argument is the word help.
HelpMode == Len(args) # 0 /\ args[1] = Tok(0, "help")

\* The arguments the path is read from: all of them but a leading help.
PathArgs == IF HelpMode THEN Tail(args) ELSE args

Terminal == Last(trail)
EventsOf(e) == {i \in 1..Len(events) : events[i].e = e}
HelpRendered == Cardinality(EventsOf("Help")) = 1
Parsed == EventsOf("Parse") # {}
ActionInvoked == EventsOf("Run") # {}
ParsedArgs == events[Min(EventsOf("Parse"))].args
Residual == events[Min(EventsOf("Run"))].args

\* c is declared by n as one of its subcommands.
DeclaredChild(n, c) ==
    /\ "Parent" \in Command(n).impl
    /\ \E j \in 1..Len(Command(n).commands) : Command(n).commands[j] = c

\* The commands the first k tokens of a name as a chain from the root's children.
RECURSIVE Reach(_, _)
Reach(a, k) ==
    IF k = 0 THEN {p.Root}
    ELSE {c \in CommandIds :
            /\ a[k] = Tok(0, Name(c))
            /\ \E n \in Reach(a, k - 1) : DeclaredChild(n, c)}

\* The first k tokens of a name a chain of commands that the next token does
\* not continue.
ChainEnds(a, k) ==
    /\ Reach(a, k) # {}
    /\ \/ k = Len(a)
       \/ a[k + 1].d >= 1
       \/ Reach(a, k + 1) = {}

\* The leading tokens of the path arguments that do not look like flags.
Segments == SubSeq(PathArgs, 1,
                   Min({i \in 1..Len(PathArgs) : PathArgs[i].d >= 1} \cup {Len(PathArgs) + 1}) - 1)
\* A segment follows the last one matched.
UnmatchedSegment == Len(Segments) >= Len(trail)
\* The tokens after the consumed path, in run-mode.
AfterPath == SubSeq(args, Len(trail), Len(args))

UnknownCommand(path) == Error("clino", "unknown command", path, 0)

-----------------------------------------------------------------------------
\* C1: path resolution always yields a trail that is non-empty, starts with
\* the root and in which every later element is a declared child of the one
\* before it; resolving the same arguments again in the same invocation
\* (runHelp after runCommand) yields the same trail.
C1_TrailWellFormed ==
    called =>
        /\ Len(trail) >= 1
        /\ trail[1] = p.Root
        /\ \A i \in 2..Len(trail) : DeclaredChild(trail[i - 1], trail[i])
        /\ helpTrail # <<>> => helpTrail = trail

C1_Witness == called /\ Len(trail) = 3 /\ helpTrail = trail

\* C2: when the arguments (a leading help pseudo-token aside) begin with k
\* tokens naming a chain of commands from the root's children and the next
\* token, if any, looks like a flag or names no child of the k-th command, the
\* trail has length k+1, and in run-mode flag parsing receives exactly the
\* arguments from position k onward.
C2_PathConsumed ==
    called =>
        \A k \in 0..Len(PathArgs) :
            ChainEnds(PathArgs, k) =>
                /\ Len(trail) = k + 1
                /\ Parsed => ParsedArgs = SubSeq(args, k + 1, Len(args))

C2_Witness ==
    /\ called
    /\ Len(PathArgs) = 3
    /\ ChainEnds(PathArgs, 2)
    /\ Parsed
    /\ Len(ParsedArgs) = 1

\* C3: when the first argument is help, or there are no arguments and the
\* root is not runnable, help is rendered, no flags are parsed and no action
\* is invoked, also when the resolved command is runnable.
C3_HelpBeforeParsing ==
    (called /\ (HelpMode \/ (args = <<>> /\ ~Implements(p.Root, "Runnable")))) =>
        /\ HelpRendered
        /\ Last(events) = [e |-> "Help", cmd |-> Terminal]
        /\ ~Parsed
        /\ ~ActionInvoked

C3_Witness ==
    /\ called
    /\ HelpMode
    /\ Len(trail) = 3
    /\ Implements(Terminal, "Runnable")
    /\ HelpRendered

\* C4: when the first argument is not help and the last command of the trail
\* is not runnable, help is rendered for that command and the remaining
\* tokens are never parsed as flags, so no flag error is returned.
C4_NotRunnableGoesToHelp ==
    (called /\ ~HelpMode /\ ~Implements(Terminal, "Runnable")) =>
        /\ HelpRendered
        /\ Last(events) = [e |-> "Help", cmd |-> Terminal]
        /\ ~Parsed
        /\ ~ActionInvoked
        /\ err.kind # "flag"

C4_Witness ==
    /\ called
    /\ ~HelpMode
    /\ ~Implements(Terminal, "Runnable")
    /\ Len(trail) = 2
    /\ Len(args) = 3
    /\ args[2] = Tok(1, "name")
    /\ HelpRendered

\* C5: when the last command of the trail is runnable, the first argument is
\* not help and parsing the tokens after the path fails with an error that is
\* no help request, Run returns that error, writes nothing to the output sink
\* and does not invoke the action.
C5_FlagErrorReturned ==
    (/\ called
     /\ ~HelpMode
     /\ Implements(Terminal, "Runnable")
     /\ Parse(p.fs, AfterPath).err \notin {Nil, ErrHelp}) =>
        /\ err = Parse(p.fs, AfterPath).err
        /\ err.kind = "flag"
        /\ text = <<>>
        /\ ~HelpRendered
        /\ ~ActionInvoked

C5_Witness ==
    /\ called
    /\ Len(trail) = 3
    /\ AfterPath = <<Tok(1, "verbose")>>
    /\ err = FlagError("flag provided but not defined", "verbose")

\* The tokens that ask for help as a flag: -h, -help, --help.
HelpFlags == {Tok(1, "h"), Tok(1, "help"), Tok(2, "help")}

\* What an invocation shows: the text it wrote and the outcome it returned.
Shown(r) == [text |-> r.text, err |-> r.err]

\* The invocation `help path`.
HelpOf(path) == Shown(ProgramRun(p, <<Tok(0, "help")>> \o path, ret))

\* The arguments are a path that names a chain of commands, then one help flag.
PathThenHelpFlag ==
    /\ args # <<>>
    /\ Last(args) \in HelpFlags
    /\ Reach(args, Len(args) - 1) # {}

\* C6 as stated: `p -h`, `p -help` and `p --help` show what `help p` shows for
\* every p naming a chain of commands, and with a root that is not runnable no
\* arguments show what `help` shows.
C6_HelpTriggersEquivalent ==
    called =>
        /\ PathThenHelpFlag =>
              Shown([text |-> text, err |-> err]) = HelpOf(SubSeq(args, 1, Len(args) - 1))
        /\ (args = <<>> /\ ~Implements(p.Root, "Runnable")) =>
              Shown([text |-> text, err |-> err]) = HelpOf(<<>>)

\* C6, amended: the same, for every p that does not begin with the word help
\* and when no flag named h or help is declared in the invocation's registry.
C6_HelpTriggersEquivalentAmended ==
    called =>
        /\ (/\ PathThenHelpFlag
            /\ ~HelpMode
            /\ FormalNames(p.fs) \cap {"h", "help"} = {}) =>
              Shown([text |-> text, err |-> err]) = HelpOf(SubSeq(args, 1, Len(args) - 1))
        /\ (args = <<>> /\ ~Implements(p.Root, "Runnable")) =>
              Shown([text |-> text, err |-> err]) = HelpOf(<<>>)

C6_Witness ==
    /\ called
    /\ PathThenHelpFlag
    /\ ~HelpMode
    /\ Len(args) = 3
    /\ Implements(Terminal, "Runnable")
    /\ Parsed
    /\ HelpRendered
    /\ text # <<>>

\* C7: when the last command of the trail is runnable, the invocation is not
\* in help-mode and the flags parse, the action of that command is invoked
\* exactly once and Run returns exactly what the action returned.
C7_ActionOutcomeReturned ==
    (/\ called
     /\ ~HelpMode
     /\ Implements(Terminal, "Runnable")
     /\ Parse(p.fs, AfterPath).err = Nil) =>
        /\ Cardinality(EventsOf("Run")) = 1
        /\ Last(events).e = "Run"
        /\ Last(events).cmd = Terminal
        /\ err = ret
        /\ text = <<>>

C7_Witness ==
    /\ called
    /\ ActionInvoked
    /\ Len(trail) = 3
    /\ ret.kind = "ExitError"
    /\ err = ret

\* The token is a declared flag that takes the next argument as its value, or
\* one that takes none.
TakesValue(tok) ==
    /\ tok.d >= 1
    /\ \E f \in p.fs.formal : f.name = tok.s /\ ~IsBoolFlag(f)
TakesNoValue(tok) ==
    /\ tok.d >= 1
    /\ \E f \in p.fs.formal : f.name = tok.s /\ IsBoolFlag(f)

\* C8: the action receives the tokens after the path with the leading parsed
\* flags removed: a -- met where a flag may stand ends the flags and is not
\* passed on, and from the first token that is not a flag every token is
\* passed on as it is, without help or a flag error.
C8_ResidualArguments ==
    (called /\ ~HelpMode /\ Implements(Terminal, "Runnable")) =>
        LET tail == AfterPath
            n == Len(tail)
        IN  /\ ActionInvoked =>
                /\ \E k \in 0..n : Residual = SubSeq(tail, k + 1, n)
                /\ Len(Residual) < n => tail[1].d >= 1
                /\ (Residual # <<>> /\ Len(Residual) < n) =>
                      \/ Residual[1].d = 0
                      \/ tail[n - Len(Residual)] = Tok(2, "")
            /\ (n >= 1 /\ tail[1].d = 0) => (ActionInvoked /\ Residual = tail)
            /\ (n >= 1 /\ tail[1] = Tok(2, "")) => (ActionInvoked /\ Residual = Tail(tail))
            /\ (n >= 2 /\ TakesNoValue(tail[1]) /\ tail[2].d = 0) =>
                  (ActionInvoked /\ Residual = Tail(tail))
            /\ (n >= 3 /\ TakesValue(tail[1]) /\ tail[3].d = 0) =>
                  (ActionInvoked /\ Residual = Tail(Tail(tail)))

C8_Witness ==
    /\ called
    /\ ActionInvoked
    /\ args = <<Tok(2, ""), Tok(1, "h"), Tok(0, "help")>>
    /\ Residual = <<Tok(1, "h"), Tok(0, "help")>>

C8_WitnessVerbatim ==
    /\ called
    /\ ActionInvoked
    /\ args = <<Tok(0, "notfound"), Tok(2, ""), Tok(1, "name")>>
    /\ Residual = args

\* C9 as stated: an unmatched segment makes Run return UnknownCommand naming
\* the root and the segments up to the first unmatched one, whatever the last
\* matched command implements.
C9_UnknownCommand ==
    (called /\ UnmatchedSegment) =>
        err = UnknownCommand(<<Name(p.Root)>> \o Words(SubSeq(Segments, 1, Len(trail))))

\* C9, amended: it does so when the last matched command is not runnable and
\* implements Parent, Longer or Footer.
C9_UnknownCommandAmended ==
    (/\ called
     /\ UnmatchedSegment
     /\ ~Implements(Terminal, "Runnable")
     /\ Command(Terminal).impl \cap {"Parent", "Longer", "Footer"} # {}) =>
        err = UnknownCommand(<<Name(p.Root)>> \o Words(SubSeq(Segments, 1, Len(trail))))

C9_Witness ==
    /\ called
    /\ ~HelpMode
    /\ Len(trail) = 2
    /\ Len(Segments) = 3
    /\ err = UnknownCommand(<<"cmd", "inner", "notfound">>)

C9_WitnessHelp ==
    /\ called
    /\ HelpMode
    /\ Len(Segments) = 2
    /\ err = UnknownCommand(<<"app", "not-runnable", "notfound">>)

\* C10: when the last matched command is runnable, a following segment that
\* matches none of its children is an argument and never yields
\* UnknownCommand: in run-mode the action receives every token after the
\* path, in help-mode help for the matched command is rendered and Run
\* returns nil.
C10_UnmatchedAreArguments ==
    (called /\ UnmatchedSegment /\ Implements(Terminal, "Runnable")) =>
        /\ err.msg # "unknown command"
        /\ ~HelpMode => (ActionInvoked /\ Residual = AfterPath /\ ~HelpRendered)
        /\ HelpMode =>
              /\ Last(events) = [e |-> "Help", cmd |-> Terminal]
              /\ text # <<>>
              /\ err = Nil
              /\ ~ActionInvoked

C10_Witness ==
    /\ called
    /\ HelpMode
    /\ UnmatchedSegment
    /\ Len(trail) = 2
    /\ Implements(Terminal, "Runnable")
    /\ err = Nil

C10_WitnessRun ==
    /\ called
    /\ ~HelpMode
    /\ UnmatchedSegment
    /\ Len(trail) = 3
    /\ ActionInvoked
    /\ Residual = <<Tok(0, "notfound")>>

\* The matched path: the segments that name the commands of the trail.
MatchedPath == SubSeq(Segments, 1, Len(trail) - 1)

MissingImplementation(path) == Error("clino", "missing implementation", path, 0)

\* The command implements none of Runnable, Parent, Longer and Footer.
Unimplemented(c) == Command(c).impl \cap {"Runnable", "Parent", "Longer", "Footer"} = {}

\* C11: when the last command of the trail implements none of Runnable,
\* Parent, Longer and Footer, Run returns MissingImplementation naming the
\* matched path (the trail's names without the root), in run-mode and in
\* help-mode, whatever follows the path.
C11_MissingImplementation ==
    (called /\ Unimplemented(Terminal)) =>
        /\ err = MissingImplementation(Words(MatchedPath))
        /\ err.path = Tail([i \in 1..Len(trail) |-> Name(trail[i])])
        /\ ~ActionInvoked

C11_Witness ==
    /\ called
    /\ ~HelpMode
    /\ Unimplemented(Terminal)
    /\ Len(Segments) = 2
    /\ err = MissingImplementation(<<"unimplemented">>)

C11_WitnessHelp ==
    /\ called
    /\ HelpMode
    /\ Unimplemented(Terminal)
    /\ Len(args) = 3
    /\ args[3].d = 1
    /\ err = MissingImplementation(<<"unimplemented">>)

\* C12: whenever Run returns UnknownCommand, help was rendered for the last
\* matched command and the text written is the whole text `help <matched
\* path>` writes: the error comes with the help, not in its place.
C12_UnknownCommandAfterHelp ==
    (called /\ err.msg = "unknown command") =>
        /\ HelpRendered
        /\ Last(events) = [e |-> "Help", cmd |-> Terminal]
        /\ text # <<>>
        /\ text = HelpOf(MatchedPath).text
        /\ HelpOf(MatchedPath).err = Nil

C12_Witness ==
    /\ called
    /\ ~HelpMode
    /\ err = UnknownCommand(<<"cmd", "inner", "notfound">>)
    /\ Len(text) >= 3
    /\ text = HelpOf(<<Tok(0, "inner")>>).text

\* The commands of the tree: the root and everything declared below it.
RECURSIVE Closure(_)
Closure(S) ==
    IF \A n \in S : \A c \in CommandIds : DeclaredChild(n, c) => c \in S THEN S
    ELSE Closure(S \cup {c \in CommandIds : \E n \in S : DeclaredChild(n, c)})

\* Two siblings somewhere in the tree have the same name.
DuplicateSiblings ==
    \E n \in Closure({p.Root}) :
        /\ "Parent" \in Command(n).impl
        /\ \E i, j \in 1..Len(Command(n).commands) :
              i # j /\ Name(Command(n).commands[i]) = Name(Command(n).commands[j])

StructuralMisuse == p.Root = NilCommand \/ DuplicateSiblings

\* C13: on a Program with no root, or with two siblings of the same name
\* anywhere in its tree, Run panics for every argument vector, before
\* anything is done with the arguments: no trail is resolved, no registry is
\* made, no contributor is called, no action runs, nothing is written.
C13_MisuseAborts ==
    (called /\ StructuralMisuse) =>
        /\ err.kind = "panic"
        /\ err.msg \in {"root command not implemented", "command implemented multiple times"}
        /\ (err.msg = "root command not implemented") <=> (p.Root = NilCommand)
        /\ trail = <<>>
        /\ helpTrail = <<>>
        /\ events = <<>>
        /\ text = <<>>
        /\ p.fs = NilFlagSet

C13_Witness ==
    /\ called
    /\ p.Root = "deepBadRootCommand"
    /\ StructuralMisuse
    /\ args = <<Tok(0, "simple"), Tok(1, "name"), Tok(0, "notfound")>>
    /\ err.kind = "panic"

C13_WitnessNoRoot ==
    /\ called
    /\ p.Root = NilCommand
    /\ p.Output = "os.Stdout"
    /\ Len(args) = 2
    /\ err.kind = "panic"

\* The calls to flag contributors among the calls of the invocation.
ContributorEvents ==
    SelectSeq(events, LAMBDA ev : ev.e \in {"GlobalFlags", "PersistentFlags", "Flags"})

\* The contributors in the order global, persistent from the root to the
\* last command of the trail, local of the last command.
InOrder ==
    (IF p.GlobalFlags.nil THEN <<>> ELSE <<[e |-> "GlobalFlags"]>>)
    \o [i \in 1..Cardinality({j \in 1..Len(trail) : Implements(trail[j], "PersistentFlagSet")}) |->
          [e |-> "PersistentFlags",
           cmd |-> trail[CHOOSE j \in 1..Len(trail) :
                           /\ Implements(trail[j], "PersistentFlagSet")
                           /\ Cardinality({k \in 1..j : Implements(trail[k], "PersistentFlagSet")}) = i]]]
    \o (IF Implements(Terminal, "FlagSet") THEN <<[e |-> "Flags", cmd |-> Terminal]>> ELSE <<>>)

\* C14: in every invocation the contributors are called in the order global,
\* persistent from the root to the last command of the trail, local of the
\* last command; they are called before anything else, and all of them have
\* been called once flags are parsed, the action is invoked or help is
\* rendered.
C14_ContributionOrder ==
    called =>
        /\ Len(ContributorEvents) <= Len(InOrder)
        /\ ContributorEvents = SubSeq(InOrder, 1, Len(ContributorEvents))
        /\ SubSeq(events, 1, Len(ContributorEvents)) = ContributorEvents
        /\ (Parsed \/ ActionInvoked \/ HelpRendered) => ContributorEvents = InOrder

C14_Witness ==
    /\ called
    /\ ~p.GlobalFlags.nil
    /\ Len(trail) = 3
    /\ Len(ContributorEvents) = 5
    /\ ActionInvoked

\* The commands whose PersistentFlags was called, in the order of the calls.
PersistentCalls ==
    [i \in 1..Len(SelectSeq(events, LAMBDA ev : ev.e = "PersistentFlags")) |->
        SelectSeq(events, LAMBDA ev : ev.e = "PersistentFlags")[i].cmd]

\* The commands of the first n of the trail that implement PersistentFlagSet.
PersistentOf(n) ==
    SelectSeq(SubSeq(trail, 1, n), LAMBDA c : Implements(c, "PersistentFlagSet"))

Aborted == err.kind = "panic"

\* C15 as stated: PersistentFlags is called for the commands of the trail
\* before the last one only, never for the last command of the trail.
C15_AncestorsOnly ==
    (called /\ ~Aborted) =>
        /\ PersistentCalls = PersistentOf(Len(trail) - 1)
        /\ \A i \in 1..Len(events) :
              events[i].e = "PersistentFlags" => events[i].cmd # Terminal

\* C15, amended: PersistentFlags is called for every command of the trail
\* that implements it, from the root to the last command included, and for
\* no other command; the last command contributes through PersistentFlags
\* and then through Flags.
C15_WholeTrail ==
    (called /\ ~Aborted) =>
        /\ PersistentCalls = PersistentOf(Len(trail))
        /\ Implements(Terminal, "PersistentFlagSet") =>
              \E i \in 1..Len(events) :
                  /\ events[i] = [e |-> "PersistentFlags", cmd |-> Terminal]
                  /\ Implements(Terminal, "FlagSet") =>
                        events[i + 1] = [e |-> "Flags", cmd |-> Terminal]
        /\ \A f \in Command(Terminal).pflags :
              Implements(Terminal, "PersistentFlagSet") => f \in p.fs.formal

C15_Witness ==
    /\ called
    /\ ~Aborted
    /\ Len(args) = 3
    /\ Len(trail) = 3
    /\ Terminal = "flagsLeafCommand"
    /\ PersistentCalls = trail
    /\ args[3] = Tok(1, "h")
    /\ ActionInvoked
    /\ Residual = <<>>

\* The declarations of the invocation's contributors, in the order of InOrder.
DeclsOf(c) ==
    CASE c.e = "GlobalFlags" -> p.GlobalFlags.decls
      [] c.e = "PersistentFlags" -> Command(c.cmd).pflags
      [] c.e = "Flags" -> Command(c.cmd).flags

\* The i-th contributor declares a name that an earlier one declared.
Redeclares(i) ==
    \E j \in 1..(i - 1) :
        \E d \in DeclsOf(InOrder[i]), b \in DeclsOf(InOrder[j]) : d.name = b.name
Redeclared == \E i \in 1..Len(InOrder) : Redeclares(i)

\* C16 as stated: when a later contributor declares a name an earlier one
\* declared, Run does not abort and the registry holds the later declaration.
C16_RedeclarationAccepted ==
    (called /\ Redeclared) =>
        /\ ~Aborted
        /\ \A i \in 1..Len(InOrder) :
              Redeclares(i) => \A d \in DeclsOf(InOrder[i]) : d \in p.fs.formal

\* C16, amended: when a later contributor declares a name an earlier one
\* declared, Run panics at that contributor's call: the registry keeps the
\* earlier declaration, the contributors after it are not called, no flag is
\* parsed, no action is invoked and nothing is written.
C16_RedeclarationAborts ==
    (called /\ Redeclared) =>
        LET at == Min({i \in 1..Len(InOrder) : Redeclares(i)})
        IN  /\ err = Panic("flag redefined")
            /\ events = SubSeq(InOrder, 1, at)
            /\ \A j \in 1..(at - 1) : \A b \in DeclsOf(InOrder[j]) : b \in p.fs.formal
            /\ text = <<>>

C16_Witness ==
    /\ called
    /\ Redeclared
    /\ Terminal = "clashLeafCommand"
    /\ Flag("verbose", "", "false", "false", "verbose mode") \in p.fs.formal
    /\ Last(events) = [e |-> "Flags", cmd |-> "clashLeafCommand"]
    /\ Aborted

C16_WitnessGlobal ==
    /\ called
    /\ Redeclared
    /\ p.GlobalFlags = ClashingGlobalFlagsFunc
    /\ Len(events) = 2
    /\ Aborted

\* The error is or wraps an ExitError; the outermost one of the chain.
HasExitError == \E i \in 1..Len(err) : err[i].kind = "ExitError"
OutermostExitError == err[Min({i \in 1..Len(err) : err[i].kind = "ExitError"})]

\* The error is or wraps the error of a child process that exited with
\* status st.
ChildExited(st) == \E i \in 1..Len(err) : err[i] = ExecExitError(st * 256)

\* C17: ExitCode gives 0 for nil; for an error that is or wraps an ExitError
\* the Code of the outermost ExitError, whatever it wraps; otherwise, for an
\* error that is or wraps the error of a child process that exited, that
\* process's exit status; and 1 for every other error, a child process that
\* did not exit among them.
C17_ExitCode ==
    exit # <<>> =>
        /\ err = <<>> => exit[1] = 0
        /\ HasExitError => exit[1] = OutermostExitError.code
        /\ \A st \in 0..255 : (~HasExitError /\ ChildExited(st)) => exit[1] = st
        /\ (err # <<>> /\ ~HasExitError /\ ~\E st \in 0..255 : ChildExited(st)) => exit[1] = 1

C17_Witness ==
    /\ exit = <<255>>
    /\ err = <<Wrapped, Wrapped, ExecExitError(65280)>>

C17_WitnessWrapped ==
    /\ exit = <<3>>
    /\ err = <<Wrapped, ExitError(3), ExecExitError(512)>>

C17_WitnessKilled ==
    /\ exit = <<1>>
    /\ err = <<Wrapped, ExecExitError(139)>>

C18_WitnessHelp ==
    /\ first # <<>>
    /\ ~p.GlobalFlags.nil
    /\ HelpRendered
    /\ Len(text) >= 3
    /\ text = first[1].text

\* C20 as stated: no call of Run changes any field of the Program.
C20_ProgramUnchanged == [][p' = p]_vars

\* C20, amended: a call of Run never changes Root or GlobalFlags; it sets
\* Output to os.Stdout when the caller left it unset and leaves it as it is
\* otherwise; and it replaces the internal registry fs by the one it made.
C20_ProgramFields ==
    [][/\ p'.Root = p.Root
       /\ p'.GlobalFlags = p.GlobalFlags
       /\ p'.Output = (IF p.Output = NilWriter THEN "os.Stdout" ELSE p.Output)
       /\ called' => (/\ p'.fs # NilFlagSet
                      /\ \A f \in p'.fs.formal :
                            \/ (~p.GlobalFlags.nil /\ f \in p.GlobalFlags.decls)
                            \/ \E i \in 1..Len(trail') :
                                  f \in Command(trail'[i]).pflags \cup Command(trail'[i]).flags)]_vars

C20_Witness ==
    /\ first # <<>>
    /\ p.Output = "os.Stdout"
    /\ first[1].p.Output = "os.Stdout"
    /\ p.fs # NilFlagSet
    /\ p.fs.formal # {}

\* C19: of two calls of Run on the same Program that overlap, each declares
\* its contributors' flags in, parses against and renders help from the
\* registry it made itself, never the registry the other call made.
C19_OwnRegistryOnly ==
    \A i \in 1..Len(inv) : inv[i].used \subseteq {i}

-----------------------------------------------------------------------------
\* The usage lines an invocation wrote, and the breadcrumb of the resolved
\* node: the names of the trail after the root.
UsageLines == {i \in 1..Len(text) : text[i].t = "Usage"}
Breadcrumb == Tail([i \in 1..Len(trail) |-> Name(trail[i])])
Placeholder == "<command>"

\* C21: a usage line that is rendered for a resolved node without children,
\* the root included, is the root's name followed by the breadcrumb alone,
\* without the <command> placeholder.
C21_NoPlaceholderWithoutChildren ==
    (called /\ HelpRendered /\ getSubcommands(Terminal) = <<>>) =>
        \A i \in UsageLines :
            /\ text[i].binary = Name(p.Root)
            /\ text[i].command = Breadcrumb
            /\ \A j \in 1..Len(text[i].command) : text[i].command[j] # Placeholder

-----------------------------------------------------------------------------
\* The lists of flags an invocation wrote, and the flags the contributors of
\* the resolved trail declare: the program's global ones, the persistent ones
\* of every command of the trail and the local ones of its last command.
FlagsLists == {i \in 1..Len(text) : text[i].t = "Flags"}
Composed == UNION {DeclsOf(InOrder[k]) : k \in 1..Len(InOrder)}

\* C22: in every invocation that renders help, whichever way help was
\* reached, the trail runHelp resolves is the trail runCommand resolved, the
\* help is that of its last command, and the flags the help lists are the
\* ones the contributors of that trail declared: the program's global
\* contributor, the persistent contributors of the trail and the local
\* contributor of the node whose help is rendered.
C22_HelpTrailIsRunTrail ==
    (called /\ HelpRendered) =>
        /\ helpTrail = trail
        /\ events[Min(EventsOf("Help"))].cmd = Terminal
        /\ ContributorEvents = InOrder
        /\ \A i \in FlagsLists : text[i].flags = {printFlag(f) : f \in Composed}

\* Help reached through a help flag after a path of two commands.
C22_Witness ==
    /\ called
    /\ HelpRendered
    /\ p.Root = "rootCommandWithFlagsAndPersistentFlags"
    /\ args = <<Tok(0, "inner"), Tok(0, "simple"), Tok(1, "h")>>
    /\ helpTrail = <<"rootCommandWithFlagsAndPersistentFlags", "innerCommand", "simpleCommand">>
    /\ Parsed
    /\ \E i \in FlagsLists : {f.name : f \in text[i].flags} = {"persistentflag", "name"}

\* Help reached through a leading help.
C22_WitnessHelpWord ==
    /\ called
    /\ HelpRendered
    /\ p.Root = "rootCommandWithFlagsAndPersistentFlags"
    /\ args = <<Tok(0, "help"), Tok(0, "inner"), Tok(0, "simple")>>
    /\ Len(helpTrail) = 3
    /\ ~Parsed
    /\ \E i \in FlagsLists : {f.name : f \in text[i].flags} = {"persistentflag", "name"}

\* Help reached with no argument on a root that is not runnable.
C22_WitnessNoArguments ==
    /\ called
    /\ HelpRendered
    /\ p.Root = "rootCommand"
    /\ args = <<>>
    /\ helpTrail = <<"rootCommand">>
    /\ \E i \in FlagsLists : text[i].flags = {}

\* Help reached through a last command that is not runnable.
C22_WitnessNotRunnable ==
    /\ called
    /\ HelpRendered
    /\ p.Root = "rootCommandWithFlagsAndPersistentFlags"
    /\ args = <<Tok(0, "inner")>>
    /\ helpTrail = <<"rootCommandWithFlagsAndPersistentFlags", "innerCommand">>
    /\ ~Parsed
    /\ \E i \in FlagsLists : {f.name : f \in text[i].flags} = {"persistentflag"}

-----------------------------------------------------------------------------
\* C23: help returns at most one error and MissingImplementation comes
\* first: when the last matched command implements none of Runnable, Parent,
\* Longer and Footer and a further segment follows it, Run returns
\* MissingImplementation for the matched path and not UnknownCommand;
\* UnknownCommand is returned only when help was rendered for a command that
\* is not runnable, the rendering itself had no error and a segment follows
\* the matched path.
C23_MissingImplementationFirst ==
    called =>
        /\ (Unimplemented(Terminal) /\ UnmatchedSegment) =>
              /\ err = MissingImplementation(Words(MatchedPath))
              /\ err.msg # "unknown command"
        /\ err.msg = "unknown command" =>
              /\ HelpRendered
              /\ ~Implements(Terminal, "Runnable")
              /\ ~Unimplemented(Terminal)
              /\ UnmatchedSegment
        /\ (HelpRendered /\ err # Nil) =>
              \/ err = MissingImplementation(Words(MatchedPath)) /\ Unimplemented(Terminal)
              \/ err = UnknownCommand(<<Name(p.Root)>> \o Words(SubSeq(Segments, 1, Len(trail))))

\* An unimplemented command followed by a segment, in run-mode.
C23_Witness ==
    /\ called
    /\ ~HelpMode
    /\ p.Root = "rootCommand"
    /\ args = <<Tok(0, "unimplemented"), Tok(0, "notfound")>>
    /\ Terminal = "unimplementedCommand"
    /\ HelpRendered
    /\ err = MissingImplementation(<<"unimplemented">>)

\* The same in help-mode.
C23_WitnessHelp ==
    /\ called
    /\ p.Root = "rootCommand"
    /\ args = <<Tok(0, "help"), Tok(0, "unimplemented"), Tok(0, "notfound")>>
    /\ err = MissingImplementation(<<"unimplemented">>)

\* A command that is a topic only, followed by a segment: UnknownCommand.
C23_WitnessUnknown ==
    /\ called
    /\ p.Root = "rootCommand"
    /\ args = <<Tok(0, "not-runnable"), Tok(0, "notfound")>>
    /\ HelpRendered
    /\ text # <<>>
    /\ err = UnknownCommand(<<"app", "not-runnable", "notfound">>)

-----------------------------------------------------------------------------
\* C24: in every invocation at most one action is invoked, at most once, and
\* help is rendered at most once; no invocation both invokes an action and
\* renders help; an action that is invoked is that of the last command of
\* the resolved trail; and the action or the help is the last thing the
\* invocation does.
C24_OutcomesExclusive ==
    called =>
        /\ Cardinality(EventsOf("Run")) <= 1
        /\ Cardinality(EventsOf("Help")) <= 1
        /\ EventsOf("Run") = {} \/ EventsOf("Help") = {}
        /\ \A i \in EventsOf("Run") :
              /\ events[i].cmd = Terminal
              /\ Implements(events[i].cmd, "Runnable")
        /\ \A i \in EventsOf("Run") \cup EventsOf("Help") : i = Len(events)

\* The action of the third command of a trail is invoked, and only it.
C24_Witness ==
    /\ called
    /\ Len(trail) = 3
    /\ Parsed
    /\ Cardinality(EventsOf("Run")) = 1
    /\ Last(events).e = "Run"
    /\ Last(events).cmd = "simpleCommand"
    /\ EventsOf("Help") = {}
    /\ text = <<>>

\* Help is rendered for a help flag met by the parse, and no action is invoked.
C24_WitnessHelp ==
    /\ called
    /\ Len(trail) = 3
    /\ Parsed
    /\ Cardinality(EventsOf("Help")) = 1
    /\ Last(events) = [e |-> "Help", cmd |-> "simpleCommand"]
    /\ EventsOf("Run") = {}
    /\ text # <<>>

====
